---- MODULE Spec2Model ----
(***************************************************************************)
(* Model of src/src/App.tsx (SalesPulse CSV dashboard).                    *)
(*                                                                         *)
(*  - aggregate(data): the cleaning / rollup routine, modelled as the      *)
(*    operators below and applied by the action Aggregate.                 *)
(*  - App.handleFile: the asynchronous upload handler, modelled by the     *)
(*    actions HandleFile / ParseResolve / ParseEmpty / ParseReject.        *)
(*                                                                         *)
(* JavaScript numbers are modelled as exact rationals extended with NaN    *)
(* and +/-Infinity (rounding of IEEE doubles and the sign of zero are      *)
(* abstracted away).  Instants are whole days since 1970-01-01, read in    *)
(* the local calendar.                                                     *)
(***************************************************************************)
EXTENDS Integers, Sequences, FiniteSets, TLC

VARIABLES data, mapped, out, parsed, error, stats, pending, lastFile, nUploads

vars == <<data, mapped, out, parsed, error, stats, pending, lastFile, nUploads>>

aggVars == <<data, mapped, out>>

appVars == <<parsed, error, stats, pending, lastFile, nUploads>>

(***************************************************************************)
(* Bounds                                                                  *)
(***************************************************************************)
MaxRawRecords == 1

MaxRows == 4

MaxUploads == 3

(***************************************************************************)
(* JavaScript numbers                                                      *)
(***************************************************************************)
Abs(i) == IF i < 0 THEN -i ELSE i

RECURSIVE Gcd(_, _)
Gcd(a, b) == IF b = 0 THEN a ELSE Gcd(b, a % b)

\* a finite rational n/d in lowest terms, d > 0
Rat(n, d) ==
  LET s == IF d < 0 THEN -1 ELSE 1
      g == Gcd(Abs(n), Abs(d))
  IN  [k |-> "fin", n |-> (s * n) \div g, d |-> (s * d) \div g]

Fin(i) == [k |-> "fin", n |-> i, d |-> 1]

NaN == [k |-> "nan", n |-> 0, d |-> 1]

PosInf == [k |-> "inf", n |-> 1, d |-> 1]

NegInf == [k |-> "inf", n |-> -1, d |-> 1]

Zero == Fin(0)

IsFin(x) == x.k = "fin"

\* Number.isNaN
NumberIsNaN(x) == x.k = "nan"

\* -1, 0, 1 for a non-NaN number
Sign(x) == IF x.n > 0 THEN 1 ELSE IF x.n < 0 THEN -1 ELSE 0

Inf(s) == IF s > 0 THEN PosInf ELSE NegInf

\* ToBoolean of a number: 0 and NaN are falsy
Truthy(x) == ~NumberIsNaN(x) /\ ~(IsFin(x) /\ x.n = 0)

\* x + y
NAdd(x, y) ==
  IF NumberIsNaN(x) \/ NumberIsNaN(y) THEN NaN
  ELSE IF IsFin(x) /\ IsFin(y) THEN Rat(x.n * y.d + y.n * x.d, x.d * y.d)
  ELSE IF IsFin(x) THEN y
  ELSE IF IsFin(y) THEN x
  ELSE IF x = y THEN x ELSE NaN

NNeg(x) == IF NumberIsNaN(x) THEN NaN ELSE [x EXCEPT !.n = -x.n]

\* x - y
NSub(x, y) == NAdd(x, NNeg(y))

\* x * y
NMul(x, y) ==
  IF NumberIsNaN(x) \/ NumberIsNaN(y) THEN NaN
  ELSE IF IsFin(x) /\ IsFin(y) THEN Rat(x.n * y.n, x.d * y.d)
  ELSE IF Sign(x) * Sign(y) = 0 THEN NaN
  ELSE Inf(Sign(x) * Sign(y))

\* x / y
NDiv(x, y) ==
  IF NumberIsNaN(x) \/ NumberIsNaN(y) THEN NaN
  ELSE IF IsFin(x) /\ IsFin(y)
       THEN IF y.n = 0
            THEN (IF x.n = 0 THEN NaN ELSE Inf(Sign(x)))
            ELSE Rat(x.n * y.d, x.d * y.n)
  ELSE IF IsFin(y) THEN Inf(Sign(x) * (IF Sign(y) < 0 THEN -1 ELSE 1))
  ELSE IF IsFin(x) THEN Zero
  ELSE NaN

\* x < y (false when either is NaN)
NLess(x, y) ==
  /\ ~NumberIsNaN(x)
  /\ ~NumberIsNaN(y)
  /\ IF IsFin(x) /\ IsFin(y) THEN x.n * y.d < y.n * x.d
     ELSE IF IsFin(x) THEN Sign(y) > 0
     ELSE IF IsFin(y) THEN Sign(x) < 0
     ELSE Sign(x) < Sign(y)

(***************************************************************************)
(* Untyped cell values of a parsed record                                  *)
(***************************************************************************)
Undefined == [t |-> "undefined", s |-> "", v |-> Zero]

Null == [t |-> "null", s |-> "", v |-> Zero]

Str(s) == [t |-> "string", s |-> s, v |-> Zero]

Num(x) == [t |-> "number", s |-> "", v |-> x]

\* r.k : the value of key k, undefined when the record has no such key
Get(r, k) == IF k \in DOMAIN r THEN r[k] ELSE Undefined

\* a ?? b
Nullish(a, b) == IF a.t \in {"undefined", "null"} THEN b ELSE a

\* a1 ?? a2 ?? ... ?? an over the keys ks of r
RECURSIVE Chain(_, _)
Chain(r, ks) ==
  IF Len(ks) = 1 THEN Get(r, ks[1])
  ELSE Nullish(Get(r, ks[1]), Chain(r, Tail(ks)))

(***************************************************************************)
(* Built-in coercions of the untyped values                                *)
(***************************************************************************)
\* StringToNumber on the string literals of the model: the empty and the
\* blank string are 0, a numeric literal is its value, anything else NaN
StringToNumber(s) ==
  CASE s = "" -> Zero
    [] s = " " -> Zero
    [] s = "0" -> Zero
    [] s = "7" -> Fin(7)
    [] s = "Infinity" -> PosInf
    [] s = "-Infinity" -> NegInf
    [] OTHER -> NaN

\* Number(v)
ToNumber(v) ==
  CASE v.t = "undefined" -> NaN
    [] v.t = "null" -> Zero
    [] v.t = "string" -> StringToNumber(v.s)
    [] OTHER -> v.v

\* Date.parse on the string literals of the model: <<string, day>>
DateLiterals ==
  { <<"1970-01-01", 0>>,     <<"2023-09-05", 19605>>, <<"2023-09-20", 19620>>,
    <<"2023-10-03", 19633>>, <<"2023-10-10", 19640>>, <<"2023-10-11", 19641>>,
    <<"2023-12-31", 19722>>, <<"2024-01-15", 19737>>, <<"2024-02-01", 19754>> }

\* a Date value: its validity and its time value in whole days
InvalidDate == [valid |-> FALSE, time |-> 0]

DateAt(t) == [valid |-> TRUE, time |-> t]

\* the time value of a finite number of milliseconds, in days
DayOfMs(x) ==
  LET ms == IF x.n < 0 THEN -((-x.n) \div x.d) ELSE x.n \div x.d
  IN  ms \div 86400000

\* new Date(d)
NewDate(d) ==
  CASE d.t = "undefined" -> InvalidDate
    [] d.t = "string" ->
         IF \E p \in DateLiterals : p[1] = d.s
         THEN DateAt((CHOOSE p \in DateLiterals : p[1] = d.s)[2])
         ELSE InvalidDate
    [] OTHER ->
         IF IsFin(ToNumber(d)) THEN DateAt(DayOfMs(ToNumber(d))) ELSE InvalidDate

\* the civil (year, month 0..11) of a day count, as getFullYear / getMonth
Civil(t) ==
  LET z == t + 719468
      era == z \div 146097
      doe == z - era * 146097
      yoe == (doe - doe \div 1460 + doe \div 36524 - doe \div 146096) \div 365
      doy == doe - (365 * yoe + yoe \div 4 - yoe \div 100)
      mp == (5 * doy + 2) \div 153
      m == IF mp < 10 THEN mp + 3 ELSE mp - 9
      y == yoe + era * 400 + (IF m <= 2 THEN 1 ELSE 0)
  IN  [year |-> y, month |-> m - 1]

getFullYear(dt) == Civil(dt.time).year

getMonth(dt) == Civil(dt.time).month

\* strings built by the program are sequences of one-character strings
DigitChar(i) == CASE i = 0 -> "0" [] i = 1 -> "1" [] i = 2 -> "2" [] i = 3 -> "3"
                  [] i = 4 -> "4" [] i = 5 -> "5" [] i = 6 -> "6" [] i = 7 -> "7"
                  [] i = 8 -> "8" [] OTHER -> "9"

RECURSIVE Digits(_)
Digits(n) == IF n < 10 THEN <<DigitChar(n)>> ELSE Digits(n \div 10) \o <<DigitChar(n % 10)>>

\* String(n) of an integer
StringOf(n) == IF n < 0 THEN <<"-">> \o Digits(-n) ELSE Digits(n)

\* s.padStart(n, c)
RECURSIVE padStart(_, _, _)
padStart(s, n, c) == IF Len(s) >= n THEN s ELSE padStart(<<c>> \o s, n, c)

\* the collation rank of the characters month keys are made of
CharRank(c) ==
  CASE c = "-" -> 0 [] c = "0" -> 1 [] c = "1" -> 2 [] c = "2" -> 3 [] c = "3" -> 4
    [] c = "4" -> 5 [] c = "5" -> 6 [] c = "6" -> 7 [] c = "7" -> 8 [] c = "8" -> 9
    [] OTHER -> 10

\* a.localeCompare(b) : -1, 0, 1
RECURSIVE localeCompare(_, _)
localeCompare(a, b) ==
  IF Len(a) = 0 /\ Len(b) = 0 THEN 0
  ELSE IF Len(a) = 0 THEN -1
  ELSE IF Len(b) = 0 THEN 1
  ELSE IF CharRank(a[1]) < CharRank(b[1]) THEN -1
  ELSE IF CharRank(a[1]) > CharRank(b[1]) THEN 1
  ELSE localeCompare(Tail(a), Tail(b))

(***************************************************************************)
(* toDate, monthKey                                                        *)
(***************************************************************************)
\* toDate(d): the Date, or null (InvalidDate stands for null)
toDate(d) == NewDate(d)

monthKey(dt) ==
  StringOf(getFullYear(dt)) \o <<"-">> \o padStart(StringOf(getMonth(dt) + 1), 2, "0")

(***************************************************************************)
(* aggregate: rows (clean + typed)                                         *)
(***************************************************************************)
\* the null a record maps to when it is rejected
NullRow == [isRow |-> FALSE]

\* (the key "urun" stands for the source's non-ASCII alias of product, and the
\* two messages of handleFile are written without their diacritics)
dateRaw(r) == Chain(r, <<"date", "order_date", "tarih">>)

productOf(r) == Nullish(Chain(r, <<"product", "urun", "Product">>), Str("Unknown"))

unitsVal(r) == Chain(r, <<"units", "quantity", "adet", "Units", "Quantity">>)

unitPriceVal(r) == Chain(r, <<"unit_price", "price", "Unit_Price", "Price">>)

rawSales(r) == Chain(r, <<"sales", "revenue", "ciro", "Sales", "Revenue">>)

\* mutant of SalesMissing: a falsy value (an explicit 0) counts as missing
SalesMissing_Falsy(v) ==
  \/ v.t \in {"undefined", "null"}
  \/ (v.t = "string" /\ v.s = "")
  \/ ~Truthy(ToNumber(v))

\* rawSales == null || rawSales === "" || isNaN(Number(rawSales))
SalesMissing(v) ==
  \/ v.t \in {"undefined", "null"}
  \/ (v.t = "string" /\ v.s = "")
  \/ NumberIsNaN(ToNumber(v))

numericSales(r) ==
  IF SalesMissing(rawSales(r))
  THEN NMul(ToNumber(unitsVal(r)), ToNumber(unitPriceVal(r)))
  ELSE ToNumber(rawSales(r))

\* the rejection test of the map callback
Rejected(r) ==
  \/ ~toDate(dateRaw(r)).valid
  \/ NumberIsNaN(ToNumber(unitsVal(r)))
  \/ NumberIsNaN(ToNumber(unitPriceVal(r)))
  \/ NumberIsNaN(numericSales(r))

\* the map callback: a Row, or null
toRow(r) ==
  IF Rejected(r) THEN NullRow
  ELSE [isRow |-> TRUE,
        date |-> toDate(dateRaw(r)),
        product |-> productOf(r),
        units |-> ToNumber(unitsVal(r)),
        unit_price |-> ToNumber(unitPriceVal(r)),
        sales |-> numericSales(r)]

\* data.map(callback)
MapRows(d) == [i \in 1..Len(d) |-> toRow(d[i])]

\* .filter(x => x !== null)
FilterRows(m) == SelectSeq(m, LAMBDA x : x # NullRow)

\* the comparator of the rows sort: a.date.getTime() - b.date.getTime()
RowCmp(a, b) == a.date.time - b.date.time

\* stable insertion of x into a sequence sorted by RowCmp
RECURSIVE InsertRow(_, _)
InsertRow(s, x) ==
  IF s = <<>> THEN <<x>>
  ELSE IF RowCmp(x, Head(s)) < 0 THEN <<x>> \o s
  ELSE <<Head(s)>> \o InsertRow(Tail(s), x)

\* rowsUnsorted.sort(...): a stable sort, ascending by time
RECURSIVE SortRows(_)
SortRows(s) ==
  IF s = <<>> THEN <<>>
  ELSE InsertRow(SortRows(SubSeq(s, 1, Len(s) - 1)), s[Len(s)])

(***************************************************************************)
(* aggregate: product totals                                               *)
(***************************************************************************)
\* index of key k in an insertion-ordered map (a sequence of entries), or 0
RECURSIVE IndexOf(_, _, _)
IndexOf(m, k, i) ==
  IF i > Len(m) THEN 0 ELSE IF m[i].key = k THEN i ELSE IndexOf(m, k, i + 1)

\* x || 0
OrZero(x) == IF Truthy(x) THEN x ELSE Zero

\* productTotals.set(r.product, (productTotals.get(r.product) || 0) + r.sales)
AddProduct(m, r) ==
  LET i == IndexOf(m, r.product, 1)
  IN  IF i = 0
      THEN Append(m, [key |-> r.product, total_sales |-> NAdd(Zero, r.sales)])
      ELSE [m EXCEPT ![i].total_sales = NAdd(OrZero(m[i].total_sales), r.sales)]

RECURSIVE ProductMap(_)
ProductMap(rows) ==
  IF rows = <<>> THEN <<>>
  ELSE AddProduct(ProductMap(SubSeq(rows, 1, Len(rows) - 1)), rows[Len(rows)])

\* the comparator of the totals sort: b.total_sales - a.total_sales
TotalCmp(a, b) == NSub(b.total_sales, a.total_sales)

RECURSIVE InsertTotal(_, _)
InsertTotal(s, x) ==
  IF s = <<>> THEN <<x>>
  ELSE IF NLess(TotalCmp(x, Head(s)), Zero) THEN <<x>> \o s
  ELSE <<Head(s)>> \o InsertTotal(Tail(s), x)

RECURSIVE SortTotals(_)
SortTotals(s) ==
  IF s = <<>> THEN <<>>
  ELSE InsertTotal(SortTotals(SubSeq(s, 1, Len(s) - 1)), s[Len(s)])

\* the comparator answers a number for every pair (never NaN)
CmpConsistent(s) ==
  \A i, j \in 1..Len(s) : i # j => ~NumberIsNaN(TotalCmp(s[i], s[j]))

Perms(s) ==
  { [i \in 1..Len(s) |-> s[f[i]]] :
      f \in { g \in [1..Len(s) -> 1..Len(s)] : \A i, j \in 1..Len(s) : g[i] = g[j] => i = j } }

\* the orders Array.prototype.sort may leave: the stable descending order, or,
\* when the comparator answers NaN for some pair, an implementation-defined one
SortedTotals(s) == IF CmpConsistent(s) THEN {SortTotals(s)} ELSE Perms(s)

RECURSIVE SumTotals(_)
SumTotals(s) ==
  IF s = <<>> THEN Zero
  ELSE NAdd(SumTotals(SubSeq(s, 1, Len(s) - 1)), s[Len(s)].total_sales)

\* mutant of Percent: a share only of a positive grand total
Percent_PositiveOnly(x, totalAll) ==
  IF NLess(Zero, totalAll) THEN NMul(NDiv(x, totalAll), Fin(100)) ELSE Zero

\* x.percent = totalAll ? (x.total_sales / totalAll) * 100 : 0
Percent(x, totalAll) ==
  IF Truthy(totalAll) THEN NMul(NDiv(x, totalAll), Fin(100)) ELSE Zero

WithPercent(s) ==
  [i \in 1..Len(s) |->
     [product |-> s[i].key, total_sales |-> s[i].total_sales,
      percent |-> Percent(s[i].total_sales, SumTotals(s))]]

(***************************************************************************)
(* aggregate: monthly rollup, percentage change, baselines                 *)
(***************************************************************************)
\* mutant of AddMonth: the sales of a bucket are overwritten, not accumulated
AddMonth_NoAccumulate(m, r) ==
  LET key == monthKey(r.date)
      i == IndexOf(m, key, 1)
  IN  IF i = 0
      THEN Append(m, [key |-> key, sales |-> NAdd(Zero, r.sales), transactions |-> 1,
                      has_pct |-> FALSE, pct_change |-> Zero])
      ELSE [m EXCEPT ![i].sales = r.sales,
                     ![i].transactions = m[i].transactions + 1]

\* cur = monthlyMap.get(key) || {key, sales: 0, transactions: 0};
\* cur.sales += r.sales; cur.transactions += 1; monthlyMap.set(key, cur)
AddMonth(m, r) ==
  LET key == monthKey(r.date)
      i == IndexOf(m, key, 1)
  IN  IF i = 0
      THEN Append(m, [key |-> key, sales |-> NAdd(Zero, r.sales), transactions |-> 1,
                      has_pct |-> FALSE, pct_change |-> Zero])
      ELSE [m EXCEPT ![i].sales = NAdd(m[i].sales, r.sales),
                     ![i].transactions = m[i].transactions + 1]

RECURSIVE MonthlyMap(_)
MonthlyMap(rows) ==
  IF rows = <<>> THEN <<>>
  ELSE AddMonth(MonthlyMap(SubSeq(rows, 1, Len(rows) - 1)), rows[Len(rows)])

RECURSIVE InsertMonth(_, _)
InsertMonth(s, x) ==
  IF s = <<>> THEN <<x>>
  ELSE IF localeCompare(x.key, Head(s).key) < 0 THEN <<x>> \o s
  ELSE <<Head(s)>> \o InsertMonth(Tail(s), x)

\* Array.from(monthlyMap.values()).sort((a, b) => a.key.localeCompare(b.key))
RECURSIVE SortMonths(_)
SortMonths(s) ==
  IF s = <<>> THEN <<>>
  ELSE InsertMonth(SortMonths(SubSeq(s, 1, Len(s) - 1)), s[Len(s)])

\* prev ? ((cur - prev) / prev) * 100 : 0, with prev = previous.sales || 0
PctChange(cur, previous) ==
  LET prev == OrZero(previous)
  IN  IF Truthy(prev) THEN NMul(NDiv(NSub(cur, prev), prev), Fin(100)) ELSE Zero

\* for (let i = 1; i < monthly.length; i++) monthly[i].pct_change = ...
WithPctChange(m) ==
  [i \in 1..Len(m) |->
     IF i = 1 THEN m[i]
     ELSE [m[i] EXCEPT !.has_pct = TRUE,
                       !.pct_change = PctChange(m[i].sales, m[i - 1].sales)]]

\* the window of the moving average
MaWindow == 3

Min(a, b) == IF a < b THEN a ELSE b

RECURSIVE SumSeq(_)
SumSeq(y) == IF y = <<>> THEN Zero ELSE NAdd(SumSeq(SubSeq(y, 1, Len(y) - 1)), y[Len(y)])

\* y.length ? y[y.length - 1] : 0
Naive(y) == IF Len(y) # 0 THEN y[Len(y)] ELSE Zero

\* mutant of MovingAverage: the mean of every bucket, not of the last three
MovingAverage_AllMonths(y) ==
  IF Len(y) # 0 THEN NDiv(SumSeq(y), Fin(Len(y))) ELSE Zero

\* k = Math.min(3, y.length || 0); k ? y.slice(-k).reduce(...) / k : 0
MovingAverage(y) ==
  LET k == Min(MaWindow, Len(y))
  IN  IF k # 0 THEN NDiv(SumSeq(SubSeq(y, Len(y) - k + 1, Len(y))), Fin(k)) ELSE Zero

(***************************************************************************)
(* aggregate                                                               *)
(***************************************************************************)
\* the value of stats before any aggregation
NoStats ==
  [called |-> FALSE, rows |-> <<>>, productTotalsArr |-> <<>>, monthly |-> <<>>,
   naive |-> Zero, ma |-> Zero]

\* the results aggregate(d) may return (one, unless the totals comparator is
\* inconsistent)
AggregateResults(d) ==
  LET rows == SortRows(FilterRows(MapRows(d)))
      monthly == WithPctChange(SortMonths(MonthlyMap(rows)))
      y == [i \in 1..Len(monthly) |-> monthly[i].sales]
  IN  { [called |-> TRUE, rows |-> rows, productTotalsArr |-> WithPercent(pt),
         monthly |-> monthly, naive |-> Naive(y), ma |-> MovingAverage(y)] :
          pt \in SortedTotals(ProductMap(rows)) }

(***************************************************************************)
(* Inputs of aggregate: arrays of parsed records                           *)
(***************************************************************************)
\* the record with no key
Empty == [k \in {} |-> Undefined]

Day1 == Str("2023-09-05")

\* how a record may give its date, units, unit price and sales
DateParts ==
  { "date" :> Day1,
    Empty,
    "tarih" :> Null,
    "date" :> Null,
    "date" :> Str("abc") }

UnitsParts ==
  { "units" :> Num(Fin(2)),
    Empty,
    "Quantity" :> Null,
    "units" :> Str("Infinity") }

PriceParts ==
  { "unit_price" :> Num(Fin(3)),
    Empty,
    "Price" :> Null,
    "price" :> Num(Zero) }

SalesParts ==
  { Empty,
    "sales" :> Num(Zero),
    "sales" :> Str("0"),
    "sales" :> Str(""),
    "sales" :> Str(" "),
    "sales" :> Str("abc"),
    ("sales" :> Null) @@ ("revenue" :> Num(Fin(7))) }

\* records exercising the field resolution
ResolveRecords ==
  { d @@ u @@ p @@ s @@ ("product" :> Str("A")) :
      d \in DateParts, u \in UnitsParts, p \in PriceParts, s \in SalesParts }

\* records exercising the rollups: (date, product, sales)
RecA ==
  ("date" :> Day1) @@ ("product" :> Str("A")) @@ ("units" :> Num(Fin(10)))
    @@ ("unit_price" :> Num(Fin(10)))

RecB ==
  ("order_date" :> Str("2023-09-20")) @@ ("Product" :> Str("B")) @@ ("quantity" :> Num(Fin(1)))
    @@ ("price" :> Num(Fin(1))) @@ ("revenue" :> Num(Fin(-100)))

RecC ==
  ("date" :> Str("2023-10-03")) @@ ("product" :> Str("A")) @@ ("units" :> Num(Fin(3)))
    @@ ("unit_price" :> Num(Fin(50))) @@ ("sales" :> Num(Fin(150)))

RecD ==
  ("tarih" :> Str("2024-01-15")) @@ ("urun" :> Str("B")) @@ ("adet" :> Num(Fin(9)))
    @@ ("price" :> Num(Fin(10)))

RecE ==
  ("date" :> Str("2024-02-01")) @@ ("product" :> Str("A")) @@ ("units" :> Num(Fin(1)))
    @@ ("unit_price" :> Num(Fin(60)))

RecF ==
  ("date" :> Str("2023-10-10")) @@ ("product" :> Str("A")) @@ ("units" :> Num(Fin(1)))
    @@ ("unit_price" :> Num(Fin(1))) @@ ("sales" :> Str("Infinity"))

RecG ==
  ("date" :> Str("2023-10-11")) @@ ("product" :> Str("A")) @@ ("units" :> Num(Fin(1)))
    @@ ("unit_price" :> Num(Fin(1))) @@ ("sales" :> Str("-Infinity"))

RecH ==
  ("date" :> Str("2023-12-31")) @@ ("units" :> Num(Fin(2))) @@ ("unit_price" :> Num(Fin(-20)))

RollupRecords == {RecA, RecB, RecC, RecD, RecE, RecF, RecG, RecH}

SeqsUpTo(S, n) == UNION { [1..m -> S] : m \in 0..n }

Inputs == SeqsUpTo(ResolveRecords, MaxRawRecords) \cup SeqsUpTo(RollupRecords, MaxRows)

(***************************************************************************)
(* App: parsed, error, stats and the uploads in flight                     *)
(***************************************************************************)
\* useState<any[] | null>(null)
NullParsed == [isNull |-> TRUE, data |-> <<>>]

SetParsed(d) == [isNull |-> FALSE, data |-> d]

\* what parseCSV does with a file: resolve(data) or reject(err)
Resolves(d) == [kind |-> "resolve", data |-> d, message |-> ""]

Rejects(m) == [kind |-> "reject", data |-> <<>>, message |-> m]

BadRecord == ("date" :> Str("abc")) @@ ("units" :> Num(Fin(1)))

Files ==
  { Resolves(<<>>), Resolves(<<RecA>>), Resolves(<<RecC, RecD>>), Resolves(<<BadRecord>>),
    Rejects("read failed"), Rejects("") }

NoFile == [kind |-> "none", data |-> <<>>, message |-> ""]

\* mutant of ErrorText: the message of the error without the fallback text
ErrorText_NoFallback(m) == m

\* e?.message || "Dosya okunamadi"
ErrorText(m) == IF m # "" THEN m ELSE "Dosya okunamadi"

\* hasData = Boolean(stats?.rows?.length)
hasData == Len(stats.rows) # 0

AppInit ==
  /\ parsed = NullParsed
  /\ error = ""
  /\ stats = NoStats
  /\ pending = {}
  /\ lastFile = NoFile
  /\ nUploads = 0

\* handleFile up to its await: setError(""), then parseCSV(file) is in flight
HandleFile(f) ==
  /\ nUploads < MaxUploads
  /\ error' = ""
  /\ pending' = pending \cup {[id |-> nUploads + 1, file |-> f]}
  /\ lastFile' = f
  /\ nUploads' = nUploads + 1
  /\ UNCHANGED <<parsed, stats, aggVars>>

\* parseCSV resolved with records: setParsed(data), and the render recomputes stats
ParseResolve(c) ==
  /\ c \in pending
  /\ c.file.kind = "resolve"
  /\ Len(c.file.data) # 0
  /\ parsed' = SetParsed(c.file.data)
  /\ stats' \in AggregateResults(c.file.data)
  /\ pending' = pending \ {c}
  /\ UNCHANGED <<error, lastFile, nUploads, aggVars>>

\* parseCSV resolved with no record: the throw is caught, setError(message)
ParseEmpty(c) ==
  /\ c \in pending
  /\ c.file.kind = "resolve"
  /\ Len(c.file.data) = 0
  /\ error' = ErrorText("CSV bos veya okunamadi.")
  /\ pending' = pending \ {c}
  /\ UNCHANGED <<parsed, stats, lastFile, nUploads, aggVars>>

\* parseCSV rejected: the rejection is caught, setError(message)
ParseReject(c) ==
  /\ c \in pending
  /\ c.file.kind = "reject"
  /\ error' = ErrorText(c.file.message)
  /\ pending' = pending \ {c}
  /\ UNCHANGED <<parsed, stats, lastFile, nUploads, aggVars>>

(***************************************************************************)
(* Specifications                                                          *)
(***************************************************************************)
\* aggregate applied to one input array
Init ==
  /\ data \in Inputs
  /\ mapped = <<>>
  /\ out = NoStats
  /\ AppInit

Aggregate ==
  /\ ~out.called
  /\ mapped' = MapRows(data)
  /\ out' \in AggregateResults(data)
  /\ UNCHANGED <<data, appVars>>

Next == Aggregate

Spec == Init /\ [][Next]_vars

\* the dashboard under uploads
InitApp ==
  /\ data = <<>>
  /\ mapped = <<>>
  /\ out = NoStats
  /\ AppInit

NextApp ==
  \/ \E f \in Files : HandleFile(f)
  \/ \E c \in pending : ParseResolve(c)
  \/ \E c \in pending : ParseEmpty(c)
  \/ \E c \in pending : ParseReject(c)

SpecApp == InitApp /\ [][NextApp]_vars

(***************************************************************************)
(* Properties                                                              *)
(***************************************************************************)
\* the sum of a sequence of numbers, from the left
RECURSIVE Total(_)
Total(y) == IF y = <<>> THEN Zero ELSE NAdd(Head(y), Total(Tail(y)))

SalesOf(rows) == [i \in 1..Len(rows) |-> rows[i].sales]

TotalsOf(pt) == [i \in 1..Len(pt) |-> pt[i].total_sales]

PercentsOf(pt) == [i \in 1..Len(pt) |-> pt[i].percent]

\* every alias in ks is absent from r or null
AllMissing(r, ks) ==
  \A i \in 1..Len(ks) : ks[i] \notin DOMAIN r \/ r[ks[i]].t \in {"undefined", "null"}

\* C1: the total_sales of the product totals sum to the sum of the sales of
\* the rows, for every input array.
C1_GrandTotalConserved ==
  out.called => Total(TotalsOf(out.productTotalsArr)) = Total(SalesOf(out.rows))

\* C2 as stated: the percents sum to 100 when the grand total is greater than
\* 0, and every percent is 0 in every other case.
C2_PercentPositiveOnly ==
  out.called =>
    LET pt == out.productTotalsArr
        total == Total(TotalsOf(pt))
    IN  IF NLess(Zero, total)
        THEN Total(PercentsOf(pt)) = Fin(100)
        ELSE \A i \in 1..Len(pt) : pt[i].percent = Zero

\* C2 amended: the percents sum to 100 when the grand total is finite and not
\* 0 (positive or negative); every percent is 0 when the grand total is 0 or
\* NaN or there is no product; every percent is NaN or 0 when the grand total
\* is +/-Infinity.
C2_PercentShares ==
  out.called =>
    LET pt == out.productTotalsArr
        total == Total(TotalsOf(pt))
    IN  /\ (IsFin(total) /\ total # Zero) => Total(PercentsOf(pt)) = Fin(100)
        /\ (total = Zero \/ NumberIsNaN(total)) =>
             \A i \in 1..Len(pt) : pt[i].percent = Zero
        /\ (total \in {PosInf, NegInf}) =>
             \A i \in 1..Len(pt) : pt[i].percent \in {NaN, Zero}

\* C2 witness: two products whose negative totals get percents summing to 100
C2_Witness ==
  /\ out.called
  /\ Len(out.productTotalsArr) = 2
  /\ NLess(Total(TotalsOf(out.productTotalsArr)), Zero)
  /\ \A i \in 1..2 : NLess(Zero, out.productTotalsArr[i].percent)
  /\ Total(PercentsOf(out.productTotalsArr)) = Fin(100)

\* C3: every row has a valid date and finite units, unit_price and sales, and
\* a record for which one of these fails is not a row.
C3_RowsFinite ==
  out.called =>
    /\ \A i \in 1..Len(out.rows) :
         /\ out.rows[i].date.valid
         /\ IsFin(out.rows[i].units)
         /\ IsFin(out.rows[i].unit_price)
         /\ IsFin(out.rows[i].sales)
    /\ \A i \in 1..Len(data) :
         mapped[i] # NullRow =>
           /\ IsFin(mapped[i].units)
           /\ IsFin(mapped[i].unit_price)
           /\ IsFin(mapped[i].sales)

\* C4: a record whose date aliases, or units aliases, or unit_price aliases
\* are all absent or null is dropped.
C4_MissingFieldDropped ==
  out.called =>
    \A i \in 1..Len(data) :
      (\/ AllMissing(data[i], <<"date", "order_date", "tarih">>)
       \/ AllMissing(data[i], <<"units", "quantity", "adet", "Units", "Quantity">>)
       \/ AllMissing(data[i], <<"unit_price", "price", "Unit_Price", "Price">>))
      => (mapped[i] = NullRow /\ Len(out.rows) < Len(data))

SalesAliases == <<"sales", "revenue", "ciro", "Sales", "Revenue">>

\* the positions of the sales aliases that hold a non-null value
GivenAt(r) ==
  { i \in 1..Len(SalesAliases) :
      SalesAliases[i] \in DOMAIN r /\ r[SalesAliases[i]].t \notin {"undefined", "null"} }

FirstGiven(r) == r[SalesAliases[CHOOSE i \in GivenAt(r) : \A j \in GivenAt(r) : i <= j]]

\* the first non-null sales alias exists, is not the empty string and converts
\* to a number
GivenNumeric(r) ==
  /\ GivenAt(r) # {}
  /\ FirstGiven(r) # Str("")
  /\ ~NumberIsNaN(ToNumber(FirstGiven(r)))

\* C5: the sales of a row is the first non-null sales alias taken as given
\* when it is present and numeric (an explicit zero included), and
\* units * unit_price only when it is absent, empty or non-numeric.
C5_SalesResolution ==
  out.called =>
    \A i \in 1..Len(data) :
      mapped[i] # NullRow =>
        IF GivenNumeric(data[i])
        THEN mapped[i].sales = ToNumber(FirstGiven(data[i]))
        ELSE mapped[i].sales = NMul(mapped[i].units, mapped[i].unit_price)

\* C5 witness: a row whose explicit zero sales won over nonzero units * price
C5_Witness ==
  /\ out.called
  /\ \E i \in 1..Len(data) :
       /\ mapped[i] # NullRow
       /\ "sales" \in DOMAIN data[i]
       /\ data[i]["sales"] = Str("0")
       /\ mapped[i].sales = Zero
       /\ NMul(mapped[i].units, mapped[i].unit_price) = Fin(6)
       /\ Len(out.rows) = 1

MonthKeysOf(rows) == { monthKey(rows[i].date) : i \in 1..Len(rows) }

RowsOfMonth(rows, key) == SelectSeq(rows, LAMBDA r : monthKey(r.date) = key)

\* C6: monthly has exactly one bucket per month key occurring among the rows,
\* in strictly increasing key order, and each bucket holds the sum of the sales
\* and the count of the rows of its month.
C6_MonthlyBuckets ==
  out.called =>
    LET m == out.monthly
    IN  /\ { m[i].key : i \in 1..Len(m) } = MonthKeysOf(out.rows)
        /\ Len(m) = Cardinality(MonthKeysOf(out.rows))
        /\ \A i, j \in 1..Len(m) : i < j => localeCompare(m[i].key, m[j].key) < 0
        /\ \A i \in 1..Len(m) :
             /\ m[i].sales = Total(SalesOf(RowsOfMonth(out.rows, m[i].key)))
             /\ m[i].transactions = Len(RowsOfMonth(out.rows, m[i].key))

\* C6 witness: three buckets, one of them of two rows, from an input that is
\* not in date order
C6_Witness ==
  /\ out.called
  /\ Len(out.monthly) = 3
  /\ \E i \in 1..3 : out.monthly[i].transactions = 2
  /\ Len(data) = 4
  /\ toDate(dateRaw(data[1])).time > toDate(dateRaw(data[4])).time

\* C7: the first bucket has no pct_change; a later bucket has
\* (sales[i] - sales[i-1]) / sales[i-1] * 100 when sales[i-1] is not 0 and 0
\* when sales[i-1] is 0.
C7_PctChange ==
  out.called =>
    LET m == out.monthly
    IN  \A i \in 1..Len(m) :
          IF i = 1 THEN ~m[i].has_pct
          ELSE /\ m[i].has_pct
               /\ m[i].pct_change =
                    IF m[i - 1].sales = Zero THEN Zero
                    ELSE NMul(NDiv(NSub(m[i].sales, m[i - 1].sales), m[i - 1].sales), Fin(100))

\* C8: with N buckets, naive is the sales of the last bucket and ma the mean
\* of the sales of the last min(3, N) buckets; both are 0 when N = 0.
C8_Baselines ==
  out.called =>
    LET y == [i \in 1..Len(out.monthly) |-> out.monthly[i].sales]
        N == Len(y)
        k == IF N < 3 THEN N ELSE 3
    IN  IF N = 0 THEN out.naive = Zero /\ out.ma = Zero
        ELSE /\ out.naive = y[N]
             /\ out.ma = NDiv(Total(SubSeq(y, N - k + 1, N)), Fin(k))

\* C8 witness: four buckets, whose moving average leaves the first one out
C8_Witness ==
  /\ out.called
  /\ Len(out.monthly) = 4
  /\ IsFin(out.ma)
  /\ out.ma # out.naive
  /\ out.ma # NDiv(Total([i \in 1..4 |-> out.monthly[i].sales]), Fin(4))

\* C9: once every handleFile call has completed, the statistics the dashboard
\* holds and shows are those of the most recently uploaded file.
C9_LatestUploadShown ==
  (pending = {} /\ nUploads > 0 /\ hasData) =>
    /\ lastFile.kind = "resolve"
    /\ parsed = SetParsed(lastFile.data)
    /\ stats \in AggregateResults(lastFile.data)

\* the call c ends in this step and its parse failed or gave no record
FailureOf(c) ==
  /\ c \in pending
  /\ pending' = pending \ {c}
  /\ (c.file.kind = "reject" \/ Len(c.file.data) = 0)

\* C10: when parseCSV rejects or yields no record, handleFile sets a non-empty
\* error message and leaves parsed (and so stats) unchanged.
C10_FailureKeepsParsed ==
  [][\A c \in pending : FailureOf(c) => (error' # "" /\ parsed' = parsed /\ stats' = stats)]_vars

\* C10 witness: a failed upload after a successful one, with the error set
C10_Witness ==
  /\ pending = {}
  /\ nUploads = 2
  /\ lastFile = Rejects("")
  /\ error # ""
  /\ ~parsed.isNull

====
